---------------------------- MODULE Spec2Model ----------------------------
(* Model of the GREIN proxy ingestion pipeline                              *)
(* (grein_proxy/update_database.py): main, load_datasets,                   *)
(* load_single_dataset and load_grein_dataset_with_timeout, over an SQLite  *)
(* table "dataset" whose primary key is the accession.                      *)
EXTENDS Integers, Sequences, FiniteSets, TLC

(* ---------------------------------------------------------------- bounds *)
NumAcc == 3          \* accessions the remote catalog can list
MaxThreads == 2      \* largest --threads value tried
MaxOther == 1        \* rows a second updater commits during one run

\* load_single_dataset's parameter max_retries. load_datasets passes 10 (the
\* default is 5); the loop is the same for every value, and the model runs
\* it with a smaller one.
max_retries == 3

Acc == 1..NumAcc
NULL == <<"NULL">>

VARIABLES
    catalog,        \* accessions grein_loader.load_overview lists
    n_threads,      \* --threads
    db,             \* committed rows of table dataset
    pending,        \* rows inserted on the connection and not yet committed
    runPc,          \* main: "init" (never ran) | "submitting" | "consuming" |
                    \* "finished" | "aborted"
    worklist,       \* datasets_to_load, in list order
    submitted,      \* how many of worklist were handed to executor.submit
    pc,             \* per accession: "none" | "queued" | "attempting" | "shutdown" | "done"
    current_retry,  \* per accession: load_single_dataset's counter
    hangs,          \* per accession: the abandoned remote call never returns
    result,         \* per accession: outcome of the future
    initFinished,   \* futures already finished when as_completed started
    waiterQ,        \* futures finished later, in finishing order
    processed,      \* accessions whose outcome the loop has handled, in order
    bar,            \* progress bar value
    hist,           \* observations of the current run, read by the properties only
    ever,           \* observations over all runs, read by the properties only
    response        \* flask_app: the answer to the last GET request

vars == <<catalog, n_threads, db, pending, runPc, worklist, submitted,
          pc, current_retry, hangs, result, initFinished, waiterQ, processed,
          bar, hist, ever, response>>

(* ------------------------------------------------------------ the remote *)
\* What grein_loader.load_dataset returns for an accession: description,
\* metadata and raw counts.
Data(a) ==
    [description |-> [Title |-> <<"title", a>>, Species |-> <<"species", a>>],
     metadata |-> <<"meta", a>>,
     raw_counts |-> <<"counts", a>>]

\* Exceptions a call of grein_loader.load_dataset can end with.
CallErrors == {"HTTPError", "GreinLoaderException", "ConnectionError", "OtherError"}

(* --------------------------------------------------------- classification *)
\* Variant: the loader's own exception is left out of the permanent class.
IsPermanentHttpOnly(e) == e \in {"HTTPError"}

IsPermanent(e) == e \in {"HTTPError", "GreinLoaderException"}

\* Variant: every exception that is not permanent is retried.
IsTransientAny(e) == e \in {"ConnectionError", "TimeoutError", "OtherError"}

IsTransient(e) == e \in {"ConnectionError", "TimeoutError"}

\* Variant: the comparison is off by one.
RetryLimitReachedLate(n) == n > max_retries

RetryLimitReached(n) == n >= max_retries

(* ------------------------------------------------------------- the store *)
Pickle(x) == <<"pickle", x>>

UnavailableRow(a) ==
    [accession |-> a, status |-> 0, title |-> NULL, species |-> NULL,
     metadata |-> NULL, raw_counts |-> NULL, normalised_counts |-> NULL]

\* Variant: the title is left out of the INSERT.
AvailableRowNoTitle(a, grein_data) ==
    [accession |-> a, status |-> 1,
     title |-> NULL,
     species |-> grein_data.description.Species,
     metadata |-> Pickle(grein_data.metadata),
     raw_counts |-> Pickle(grein_data.raw_counts),
     normalised_counts |-> NULL]

AvailableRow(a, grein_data) ==
    [accession |-> a, status |-> 1,
     title |-> grein_data.description.Title,
     species |-> grein_data.description.Species,
     metadata |-> Pickle(grein_data.metadata),
     raw_counts |-> Pickle(grein_data.raw_counts),
     normalised_counts |-> NULL]

\* accession TEXT PRIMARY KEY: an INSERT is refused when a row of the table,
\* committed or pending on this connection, has the accession.
PrimaryKeyTaken(a, rows) == \E r \in rows : r.accession = a

\* Variant: only the rows of loaded datasets (status 1) are selected.
get_loaded_datasets_available(rows) == {r.accession : r \in {x \in rows : x.status = 1}}

get_loaded_datasets(rows) == {r.accession : r \in rows}

\* Variant: the rows of the table are not taken off.
DifferKeepsLoaded(grein_accessions, loaded_datasets) == grein_accessions

Differ(grein_accessions, loaded_datasets) == grein_accessions \ loaded_datasets

(* ------------------------------------------------------------ sequences *)
Range(s) == {s[k] : k \in 1..Len(s)}

Perms(S) == {s \in [1..Cardinality(S) -> S] : Range(s) = S}

Pos(s, a) == CHOOSE k \in 1..Len(s) : s[k] = a

(* ------------------------------------------------------------------ Init *)
\* No request was answered yet.
NoResponse == [endpoint |-> "none"]

NoHist ==
    [attempts |-> [a \in Acc |-> 0],
     sleeps |-> [a \in Acc |-> 0],
     calls |-> [a \in Acc |-> 0],
     cause |-> [a \in Acc |-> "none"],
     commits |-> <<>>,
     skipped |-> {},
     integrity |-> {},
     faults |-> {},
     other |-> {},
     aborted |-> FALSE]

Init ==
    /\ catalog \in SUBSET Acc
    /\ n_threads \in 1..MaxThreads
    /\ db = {}
    /\ pending = {}
    /\ runPc = "init"
    /\ worklist = <<>>
    /\ submitted = 0
    /\ pc = [a \in Acc |-> "none"]
    /\ current_retry = [a \in Acc |-> 0]
    /\ hangs = [a \in Acc |-> FALSE]
    /\ result = [a \in Acc |-> "none"]
    /\ initFinished = {}
    /\ waiterQ = <<>>
    /\ processed = <<>>
    /\ bar = 0
    /\ hist = NoHist
    /\ ever = [inserted |-> {}, reinserted |-> {}]
    /\ response = NoResponse

(* ------------------------------------------------- main: start of a run *)
\* Variant: the database file is created anew by every invocation.
OpenDatabaseFresh(rows) == {}

\* main opens the database: create_database runs only when the file does not
\* exist, sqlite3.connect on an existing file keeps the rows it holds.
OpenDatabase(rows) == rows

\* No invocation of main is running.
Stopped == runPc \in {"init", "finished", "aborted"}

\* main up to the call of load_datasets: the table is read, the catalog is
\* enumerated, the work list is remote minus local in the order list(set)
\* happens to give. An empty work list ends the run at once.
StartRun ==
    /\ Stopped
    /\ LET loaded_datasets == get_loaded_datasets(OpenDatabase(db))
           datasets_to_load == Differ(catalog, loaded_datasets)
       IN  /\ \E order \in Perms(datasets_to_load) : worklist' = order
           /\ hist' = NoHist
           /\ runPc' = IF datasets_to_load = {} THEN "finished" ELSE "submitting"
    /\ submitted' = 0
    /\ pc' = [a \in Acc |-> "none"]
    /\ current_retry' = [a \in Acc |-> 0]
    /\ hangs' = [a \in Acc |-> FALSE]
    /\ result' = [a \in Acc |-> "none"]
    /\ initFinished' = {}
    /\ waiterQ' = <<>>
    /\ processed' = <<>>
    /\ bar' = 0
    /\ db' = OpenDatabase(db)
    /\ UNCHANGED <<response, catalog, n_threads, pending, ever>>

(* ------------------------------------------- load_datasets: submission *)
\* One executor.submit of the dict comprehension: the next accession of the
\* work list joins the pool's queue.
Submit ==
    /\ runPc = "submitting"
    /\ submitted < Len(worklist)
    /\ submitted' = submitted + 1
    /\ pc' = [pc EXCEPT ![worklist[submitted + 1]] = "queued"]
    /\ UNCHANGED <<response, catalog, n_threads, db, pending, runPc, worklist,
                   current_retry, hangs, result, initFinished, waiterQ,
                   processed, bar, hist, ever>>

\* as_completed starts: the futures that are already finished are set aside
\* (a set, yielded in no particular order), the others report to the waiter
\* as they finish.
AsCompleted ==
    /\ runPc = "submitting"
    /\ submitted = Len(worklist)
    /\ runPc' = "consuming"
    /\ initFinished' = {a \in Range(worklist) : pc[a] = "done"}
    /\ UNCHANGED <<response, catalog, n_threads, db, pending, worklist, submitted,
                   pc, current_retry, hangs, result, waiterQ, processed, bar,
                   hist, ever>>

(* ------------------------------------------------ the pool's workers *)
Busy == {a \in Acc : pc[a] \in {"attempting", "shutdown"}}

\* A worker process is free and the accession is the oldest queued one.
CanStart(a) ==
    /\ pc[a] = "queued"
    /\ Cardinality(Busy) < n_threads
    /\ \A b \in Acc : pc[b] = "queued" => Pos(worklist, a) <= Pos(worklist, b)

\* load_single_dataset begins: current_retry = 0 and the first call of
\* load_grein_dataset_with_timeout submits the remote call.
StartItem(a) ==
    /\ CanStart(a)
    /\ pc' = [pc EXCEPT ![a] = "attempting"]
    /\ current_retry' = [current_retry EXCEPT ![a] = 0]
    /\ hist' = [hist EXCEPT !.attempts[a] = 1, !.calls[a] = 1]
    /\ UNCHANGED <<response, catalog, n_threads, db, pending, runPc, worklist,
                   submitted, hangs, result, initFinished, waiterQ, processed,
                   bar, ever>>

\* Observation: the work item ended, its last attempt with outcome e.
Ended(h, a, e) ==
    [h EXCEPT !.attempts[a] = 0, !.sleeps[a] = 0, !.cause[a] = e]

\* The future of the work item finishes with outcome r.
Complete(a, r) ==
    /\ pc' = [pc EXCEPT ![a] = "done"]
    /\ current_retry' = [current_retry EXCEPT ![a] = 0]
    /\ result' = [result EXCEPT ![a] = r]
    /\ waiterQ' = IF runPc = "consuming" THEN Append(waiterQ, a) ELSE waiterQ

\* The handler of a transient error: count it, give up at the limit,
\* otherwise sleep retry_delay and call load_grein_dataset_with_timeout again.
Transient(a, h, e) ==
    IF RetryLimitReached(current_retry[a] + 1)
       THEN /\ Complete(a, "retry_limit")
            /\ hist' = Ended(h, a, e)
       ELSE /\ current_retry' = [current_retry EXCEPT ![a] = @ + 1]
            /\ hist' = [h EXCEPT !.sleeps[a] = @ + 1,
                                 !.attempts[a] = @ + 1,
                                 !.calls[a] = @ + 1]
            /\ pc' = [pc EXCEPT ![a] = "attempting"]
            /\ UNCHANGED <<result, waiterQ>>

\* The remote call returns the dataset within the timeout.
FetchReturns(a) ==
    /\ pc[a] = "attempting"
    /\ Complete(a, "data")
    /\ hist' = Ended([hist EXCEPT !.calls[a] = @ - 1], a,
                     IF current_retry[a] > 0 THEN "data after retry" ELSE "data")
    /\ UNCHANGED <<response, catalog, n_threads, db, pending, runPc, worklist,
                   submitted, hangs, initFinished, processed,
                   bar, ever>>

\* The remote call raises e within the timeout.
FetchRaises(a, e) ==
    /\ pc[a] = "attempting"
    /\ LET h == [hist EXCEPT !.calls[a] = @ - 1]
       IN  IF IsPermanent(e)
              THEN /\ Complete(a, "None")
                   /\ hist' = Ended(h, a, e)
              ELSE IF IsTransient(e)
                      THEN Transient(a, h, e)
                      ELSE /\ Complete(a, "error")
                           /\ hist' = Ended(h, a, e)
    /\ UNCHANGED <<response, catalog, n_threads, db, pending, runPc, worklist,
                   submitted, hangs, initFinished, processed, bar, ever>>

\* Variant: the executor is shut down without waiting, TimeoutError reaches
\* load_single_dataset while the abandoned call is still running.
FetchTimesOutNoWait(a, never) ==
    /\ pc[a] = "attempting"
    /\ Transient(a, hist, "TimeoutError")
    /\ hangs' = [hangs EXCEPT ![a] = never]
    /\ UNCHANGED <<response, catalog, n_threads, db, pending, runPc, worklist,
                   submitted, initFinished, processed, bar, ever>>

\* future.result(timeout) gives up: TimeoutError is raised inside the with
\* block, whose exit is executor.shutdown(wait=True), so the worker now
\* waits for the remote call. never: the call is one that does not return.
FetchTimesOut(a, never) ==
    /\ pc[a] = "attempting"
    /\ pc' = [pc EXCEPT ![a] = "shutdown"]
    /\ hangs' = [hangs EXCEPT ![a] = never]
    /\ UNCHANGED <<response, catalog, n_threads, db, pending, runPc, worklist,
                   submitted, current_retry, result, initFinished, waiterQ,
                   processed, bar, hist, ever>>

\* The abandoned call ends at last; the shutdown returns and TimeoutError
\* reaches load_single_dataset.
CallEnds(a) ==
    /\ pc[a] = "shutdown"
    /\ ~hangs[a]
    /\ Transient(a, [hist EXCEPT !.calls[a] = @ - 1], "TimeoutError")
    /\ UNCHANGED <<response, catalog, n_threads, db, pending, runPc, worklist,
                   submitted, hangs, initFinished, processed, bar, ever>>

(* ------------------------------------- load_datasets: the outcome loop *)
\* Observation: an INSERT for accession a was issued.
Inserted(ev, a) ==
    [ev EXCEPT !.inserted = @ \cup {a},
               !.reinserted = IF a \in ev.inserted THEN @ \cup {a} ELSE @]

\* The futures as_completed can yield next: the ones that were finished when
\* it started come first, in the order of a set; then the others in the
\* order in which they finished.
NextFutures ==
    IF initFinished # {} THEN initFinished
    ELSE IF waiterQ # <<>> THEN {Head(waiterQ)}
    ELSE {}

\* The row the loop builds from what future.result() returned.
RowOf(a) ==
    IF result[a] = "None" THEN UnavailableRow(a) ELSE AvailableRow(a, Data(a))

\* What the try block of the loop body raises for the future of accession a,
\* "none" when it gets to the end. fault is what the store does to this
\* pass: "ok", "insert_fails" (the INSERT raises for a reason other than the
\* key, such as a locked database) or "commit_fails" (the INSERT is accepted
\* and connection.commit raises).
Raised(a, fault) ==
    IF result[a] = "retry_limit" THEN "Exception"
    ELSE IF result[a] = "error" THEN "OtherError"
    ELSE IF fault = "insert_fails" THEN "OperationalError"
    ELSE IF PrimaryKeyTaken(a, db \cup pending) THEN "IntegrityError"
    ELSE IF fault = "commit_fails" THEN "OperationalError"
    ELSE "none"

\* Variant: only the retry-limit error is contained, anything else leaves
\* the loop.
CaughtRetryLimitOnly(exc) == exc = "Exception"

\* except Exception: whatever the try block raised is caught.
Caught(exc) == TRUE

\* Variant: bar.next() is the last statement of the try block.
AdvanceInTry(value, exc) == IF exc = "none" THEN value + 1 ELSE value

\* bar.next() after the try statement: it runs whether the block raised or
\* not and moves the bar by one. (The first bar.next(), before the pool is
\* created, starts the bar at min_value = 0 and counts nothing.)
Advance(value, exc) == value + 1

\* Observation: the loop is done with the future of a.
Forget(a) == [hist EXCEPT !.cause[a] = "none"]

\* One pass of the loop body for the future of accession a: the result is
\* taken, a row is inserted and committed, an exception is logged, and the
\* bar moves on.
ProcessOutcome(a, fault) ==
    /\ runPc = "consuming"
    /\ a \in NextFutures
    /\ fault # "ok" => result[a] \in {"data", "None"}
    /\ LET exc == Raised(a, fault)
           inserts == result[a] \in {"data", "None"}
           accepted == inserts /\ exc \in {"none", "OperationalError"}
                               /\ fault # "insert_fails"
       IN  /\ ever' = IF inserts THEN Inserted(ever, a) ELSE ever
           /\ IF exc = "none"
                 THEN /\ db' = db \cup pending \cup {RowOf(a)}
                      /\ pending' = {}
                 ELSE /\ db' = db
                      /\ pending' = IF accepted THEN pending \cup {RowOf(a)} ELSE pending
           /\ IF exc = "none" \/ Caught(exc)
                 THEN /\ initFinished' = initFinished \ {a}
                      /\ waiterQ' = IF initFinished # {} THEN waiterQ ELSE Tail(waiterQ)
                      /\ processed' = Append(processed, a)
                      /\ bar' = Advance(bar, exc)
                      /\ runPc' = runPc
                      /\ hist' = IF exc = "none"
                                    THEN [Forget(a) EXCEPT !.commits =
                                            Append(@, get_loaded_datasets(pending) \cup {a})]
                                    ELSE [Forget(a) EXCEPT
                                            !.skipped = @ \cup {a},
                                            !.integrity = IF exc = "IntegrityError"
                                                             THEN @ \cup {a} ELSE @,
                                            !.faults = IF exc = "OperationalError"
                                                          THEN @ \cup {a} ELSE @]
                 ELSE \* the exception leaves load_datasets and main
                      /\ runPc' = "aborted"
                      /\ hist' = [hist EXCEPT !.aborted = TRUE]
                      /\ UNCHANGED <<initFinished, waiterQ, processed, bar>>
    /\ UNCHANGED <<response, catalog, n_threads, worklist, submitted, pc, current_retry,
                   hangs, result>>

Process(a) == ProcessOutcome(a, "ok")

ProcessFault(a, fault) ==
    /\ fault \in {"insert_fails", "commit_fails"}
    /\ ProcessOutcome(a, fault)

\* Every future was handled: the executor is left, bar.finish(), and main
\* closes the connection, which drops what was never committed.
FinishRun ==
    /\ runPc = "consuming"
    /\ Len(processed) = Len(worklist)
    /\ runPc' = "finished"
    /\ pending' = {}
    /\ UNCHANGED <<response, catalog, n_threads, db, worklist, submitted, pc,
                   current_retry, hangs, result, initFinished, waiterQ,
                   processed, bar, hist, ever>>

\* Variant: the error is caught and the run goes on as if the catalog were
\* empty.
EnumerationFailsSwallowed ==
    /\ Stopped
    /\ runPc' = "finished"
    /\ hist' = [NoHist EXCEPT !.aborted = TRUE]
    /\ worklist' = <<>>
    /\ submitted' = 0
    /\ pc' = [a \in Acc |-> "none"]
    /\ current_retry' = [a \in Acc |-> 0]
    /\ hangs' = [a \in Acc |-> FALSE]
    /\ result' = [a \in Acc |-> "none"]
    /\ initFinished' = {}
    /\ waiterQ' = <<>>
    /\ processed' = <<>>
    /\ bar' = 0
    /\ UNCHANGED <<response, catalog, n_threads, db, pending, ever>>

\* grein_loader.load_overview (or reading the table) raises: nothing in main
\* catches it, the process ends with the error.
EnumerationFails ==
    /\ Stopped
    /\ runPc' = "aborted"
    /\ hist' = [NoHist EXCEPT !.aborted = TRUE]
    /\ worklist' = <<>>
    /\ submitted' = 0
    /\ pc' = [a \in Acc |-> "none"]
    /\ current_retry' = [a \in Acc |-> 0]
    /\ hangs' = [a \in Acc |-> FALSE]
    /\ result' = [a \in Acc |-> "none"]
    /\ initFinished' = {}
    /\ waiterQ' = <<>>
    /\ processed' = <<>>
    /\ bar' = 0
    /\ UNCHANGED <<response, catalog, n_threads, db, pending, ever>>

(* ------------------------------------------------- another updater *)
\* A second invocation of the updater on the same database file commits a
\* row of its own (the same INSERT and commit, lines 186-202) while this
\* one is between reading the table and writing.
OtherUpdaterCommits(a, st) ==
    /\ runPc \in {"submitting", "consuming"}
    /\ Cardinality(hist.other) < MaxOther
    /\ a \in catalog
    /\ pending = {}
    /\ ~PrimaryKeyTaken(a, db)
    /\ db' = db \cup {IF st = 0 THEN UnavailableRow(a) ELSE AvailableRow(a, Data(a))}
    /\ ever' = Inserted(ever, a)
    /\ hist' = [hist EXCEPT !.other = @ \cup {a}]
    /\ UNCHANGED <<response, catalog, n_threads, pending, runPc, worklist,
                   submitted, pc, current_retry, hangs, result, initFinished,
                   waiterQ, processed, bar>>

(* ------------------------------------------------------ specifications *)
Next ==
    \/ StartRun
    \/ EnumerationFails
    \/ Submit
    \/ AsCompleted
    \/ \E a \in Acc : StartItem(a)
    \/ \E a \in Acc : FetchReturns(a)
    \/ \E a \in Acc, e \in CallErrors : FetchRaises(a, e)
    \/ \E a \in Acc, never \in BOOLEAN : FetchTimesOut(a, never)
    \/ \E a \in Acc : CallEnds(a)
    \/ \E a \in Acc : Process(a)
    \/ FinishRun

\* The store works and this updater is the only writer.
Spec == Init /\ [][Next]_vars

OverlapNext ==
    \/ runPc = "init" /\ StartRun
    \/ Submit
    \/ AsCompleted
    \/ \E a \in Acc : StartItem(a)
    \/ \E a \in Acc : FetchReturns(a)
    \/ \E a \in Acc, e \in CallErrors : FetchRaises(a, e)
    \/ \E a \in Acc, never \in BOOLEAN : FetchTimesOut(a, never)
    \/ \E a \in Acc : CallEnds(a)
    \/ \E a \in Acc : Process(a)
    \/ FinishRun
    \/ \E a \in Acc, st \in {0, 1} : OtherUpdaterCommits(a, st)

\* One invocation of main while a second updater writes to the same table.
SpecOverlap == Init /\ [][OverlapNext]_vars

FaultNext ==
    \/ runPc = "init" /\ StartRun
    \/ Submit
    \/ AsCompleted
    \/ \E a \in Acc : StartItem(a)
    \/ \E a \in Acc : FetchReturns(a)
    \/ \E a \in Acc, e \in CallErrors : FetchRaises(a, e)
    \/ \E a \in Acc, never \in BOOLEAN : FetchTimesOut(a, never)
    \/ \E a \in Acc : CallEnds(a)
    \/ \E a \in Acc : Process(a)
    \/ \E a \in Acc, fault \in {"insert_fails", "commit_fails"} : ProcessFault(a, fault)
    \/ FinishRun

\* One invocation of main against a store that can refuse an INSERT or a
\* commit.
SpecFaults == Init /\ [][FaultNext]_vars

\* The attempt of work item a that is under way ends: the remote call
\* returns, raises, or the wait for it times out.
AttemptEnds(a) ==
    \/ FetchReturns(a)
    \/ \E e \in CallErrors : FetchRaises(a, e)
    \/ \E never \in BOOLEAN : FetchTimesOut(a, never)

\* Spec, where no remote call that can end is left waiting forever: every
\* attempt comes to one of its ends, and an abandoned call that does return
\* lets the shutdown of its executor go on.
SpecFair ==
    /\ Spec
    /\ \A a \in Acc : WF_vars(AttemptEnds(a)) /\ WF_vars(CallEnds(a))

(* ------------------------------------------------- the serving layer *)
\* flask_app.py answers GET requests from the table the updater fills. The
\* routes have a non-empty <accession> segment, so the handlers' check
\* "if not accession: abort(400)" never fires and is left out.

\* pickle.loads of a blob written by pickle.dumps.
Unpickle(blob) == blob[2]

\* A value of the JSON body flask builds from a dict.
JsonNumber(n) == <<"number", n>>

JsonString(x) == <<"string", x>>

\* flask.abort(code, message)
abort(code, message) == [code |-> code, body |-> <<"error", message>>]

\* res.fetchall() of SELECT ... FROM dataset WHERE accession = ?
fetchall(accession, rows) == {r \in rows : r.accession = accession}

\* Variant: an accession without a row is answered with 404, as the data
\* endpoints do.
status_unknown_404(accession, rows) ==
    LET entries == fetchall(accession, rows)
    IN  IF Cardinality(entries) > 1
           THEN abort(500, <<"Duplicate entries", accession>>)
        ELSE IF Cardinality(entries) < 1
           THEN abort(404, "Unknown identifier passed")
        ELSE LET e == CHOOSE r \in entries : TRUE
             IN  [code |-> 200,
                  body |-> [accession |-> JsonString(accession),
                            status |-> JsonNumber(e.status),
                            title |-> e.title,
                            species |-> e.species]]

\* GET /<accession>/status
status(accession, rows) ==
    LET entries == fetchall(accession, rows)
    IN  IF Cardinality(entries) > 1
           THEN abort(500, <<"Duplicate entries", accession>>)
        ELSE IF Cardinality(entries) < 1
           THEN [code |-> 200,
                 body |-> [accession |-> JsonString(accession),
                           status |-> JsonString("Unknown")]]
        ELSE LET e == CHOOSE r \in entries : TRUE
             IN  [code |-> 200,
                  body |-> [accession |-> JsonString(accession),
                            status |-> JsonNumber(e.status),
                            title |-> e.title,
                            species |-> e.species]]

\* GET /<accession>/metadata.json
metadata(accession, rows) ==
    LET entries == fetchall(accession, rows)
    IN  IF Cardinality(entries) < 1
           THEN abort(404, "Unknown identifier passed")
        ELSE IF Cardinality(entries) > 1
           THEN abort(500, <<"Duplicate entries", accession>>)
        ELSE LET e == CHOOSE r \in entries : TRUE
             IN  IF e.status # 1
                    THEN abort(500, "Database not available in GREIN")
                    ELSE [code |-> 200, body |-> Unpickle(e.metadata)]

\* GET /<accession>/raw_counts.tsv
raw_counts(accession, rows) ==
    LET entries == fetchall(accession, rows)
    IN  IF Cardinality(entries) < 1
           THEN abort(404, "Unknown identifier passed")
        ELSE IF Cardinality(entries) > 1
           THEN abort(500, <<"Duplicate entries", accession>>)
        ELSE LET e == CHOOSE r \in entries : TRUE
             IN  IF e.status # 1
                    THEN abort(500, "Database not available in GREIN")
                    ELSE [code |-> 200,
                          body |-> <<"tsv", Unpickle(e.raw_counts)>>]

Endpoints == {"status", "metadata", "raw_counts"}

\* The test client sends a GET request and the route's handler answers it
\* from the table.
Get(endpoint, accession) ==
    /\ response' =
          [endpoint |-> endpoint,
           accession |-> accession,
           answer |-> IF endpoint = "status" THEN status(accession, db)
                      ELSE IF endpoint = "metadata" THEN metadata(accession, db)
                      ELSE raw_counts(accession, db)]
    /\ UNCHANGED <<catalog, n_threads, db, pending, runPc, worklist,
                   submitted, pc, current_retry, hangs, result, initFinished,
                   waiterQ, processed, bar, hist, ever>>

\* The tables the updater can leave behind: for every accession no row, the
\* row of an unavailable dataset or the row of a loaded one.
Tables ==
    {t \in SUBSET ({UnavailableRow(a) : a \in Acc}
                      \cup {AvailableRow(a, Data(a)) : a \in Acc}) :
        \A r1, r2 \in t : r1.accession = r2.accession => r1 = r2}

ServeInit ==
    /\ db \in Tables
    /\ catalog = Acc
    /\ n_threads = 1
    /\ pending = {}
    /\ runPc = "finished"
    /\ worklist = <<>>
    /\ submitted = 0
    /\ pc = [a \in Acc |-> "none"]
    /\ current_retry = [a \in Acc |-> 0]
    /\ hangs = [a \in Acc |-> FALSE]
    /\ result = [a \in Acc |-> "none"]
    /\ initFinished = {}
    /\ waiterQ = <<>>
    /\ processed = <<>>
    /\ bar = 0
    /\ hist = NoHist
    /\ ever = [inserted |-> get_loaded_datasets(db), reinserted |-> {}]
    /\ response = NoResponse

ServeNext == \E endpoint \in Endpoints, accession \in Acc : Get(endpoint, accession)

\* The proxy answers requests from a table the updater has filled.
SpecServe == ServeInit /\ [][ServeNext]_vars

(* ------------------------------------------------------------ properties *)
Running(a) == pc[a] \in {"attempting", "shutdown"}

\* The future of a finishes in this step.
Ends(a) == result[a] = "none" /\ result'[a] # "none"

\* load_single_dataset goes on to another attempt in this step.
Retries(a) == Running(a) /\ hist'.attempts[a] = hist.attempts[a] + 1

Handled(a) == a \in Range(processed)

\* C1: a work item whose attempts all end in a transient error is tried
\* exactly max_retries times, sleeps once between two attempts and not after
\* the last, ends with the retry-limit error, and no row is written for it.
C1_RetryBound ==
    /\ [](\A a \in Acc :
            /\ hist.attempts[a] <= max_retries
            /\ Running(a) => hist.sleeps[a] = hist.attempts[a] - 1
            /\ hist.cause[a] \in {"ConnectionError", "TimeoutError"}
                  => result[a] = "retry_limit"
            /\ result[a] = "retry_limit" => ~PrimaryKeyTaken(a, db \cup pending))
    /\ [][\A a \in Acc :
            /\ Ends(a) /\ result'[a] = "retry_limit"
                  => /\ hist.attempts[a] = max_retries
                     /\ hist.sleeps[a] = max_retries - 1
            /\ Retries(a) => hist'.sleeps[a] = hist.sleeps[a] + 1]_vars

C1_Witness ==
    \E a \in Acc :
        /\ result[a] = "retry_limit"
        /\ Handled(a)
        /\ runPc = "finished"

\* C5: a not-found error of the remote ends the work item at once with
\* "not available": the attempt that met it is not repeated and no delay
\* follows it (one attempt when it is the first thing the remote answers),
\* and the loop stores the accession with status 0.
C5_PermanentFailure ==
    /\ [](\A a \in Acc :
            /\ hist.cause[a] \in {"HTTPError", "GreinLoaderException"}
                  => result[a] = "None" /\ pc[a] = "done"
            /\ result[a] = "None" /\ Handled(a) => UnavailableRow(a) \in db)
    /\ [][\A a \in Acc :
            Ends(a) /\ result'[a] = "None"
               => /\ hist.attempts[a] = current_retry[a] + 1
                  /\ hist.sleeps[a] = current_retry[a]
                  /\ current_retry[a] = 0 => hist.attempts[a] = 1]_vars

C5_Witness ==
    \E a \in Acc :
        /\ result[a] = "None"
        /\ Handled(a)
        /\ UnavailableRow(a) \in db

\* C10 as stated: an error that is neither permanent nor transient aborts
\* the whole run.
C10_UnclassifiedAborts ==
    \A a \in Acc : result[a] = "error" /\ Handled(a) => runPc = "aborted"

\* C10 as amended: an error that is neither permanent nor transient is not
\* retried, it ends the work item with that error; the loop catches it,
\* skips the item without writing a row, and goes on to the other items.
C10_UnclassifiedSkipped ==
    /\ [](\A a \in Acc :
            /\ hist.cause[a] = "OtherError" => result[a] = "error" /\ pc[a] = "done"
            /\ result[a] = "error" /\ Handled(a)
                  => /\ a \in hist.skipped
                     /\ ~PrimaryKeyTaken(a, db \cup pending)
                     /\ runPc \in {"consuming", "finished"}
            /\ runPc = "finished" => Range(processed) = Range(worklist))
    /\ [][\A a \in Acc :
            Ends(a) /\ result'[a] = "error"
               => hist.attempts[a] = current_retry[a] + 1]_vars

C10_Witness ==
    /\ runPc = "finished"
    /\ \E k \in 1..Len(processed) :
          /\ result[processed[k]] = "error"
          /\ k < Len(processed)
          /\ result[processed[k + 1]] = "data"

\* C2 as stated: when the remote call never returns, the worker still has
\* TimeoutExceeded in hand once the timeout has elapsed; it is not waiting
\* for the abandoned call.
C2_TimeoutIsolation ==
    \A a \in Acc : hangs[a] /\ hist.calls[a] > 0 => pc[a] # "shutdown"

\* C3: the table never holds two rows for one accession, and no INSERT is
\* issued for an accession for which one was issued before, over any number
\* of runs and any interleaving of the workers.
C3_NoDuplicateKeys ==
    /\ \A r1, r2 \in db \cup pending : r1.accession = r2.accession => r1 = r2
    /\ ever.reinserted = {}

C3_Witness ==
    /\ runPc = "consuming"
    /\ Cardinality(Busy) = 2
    /\ \E a \in ever.inserted : PrimaryKeyTaken(a, db) /\ a \notin Range(worklist)

DataColumns(r) == {r.title, r.species, r.metadata, r.raw_counts}

\* C6: every row with status 1 has title, species, metadata and raw_counts
\* set, every row with status 0 has none of them set, and there is no other
\* status.
C6_StatusColumnCoupling ==
    \A r \in db \cup pending :
        /\ r.status \in {0, 1}
        /\ r.status = 1 => NULL \notin DataColumns(r)
        /\ r.status = 0 => DataColumns(r) = {NULL}

C6_Witness ==
    /\ \E r \in db : r.status = 1
    /\ \E r \in db : r.status = 0

Failed(a) == result[a] \in {"retry_limit", "error"}

\* C7: a work item that fails (retries exhausted, or another error raised)
\* does not stop the run: when load_datasets is over every item of the work
\* list was handled, one row was written for each item that did not fail
\* and the failed ones were skipped. One success, one permanent failure and
\* one item out of retries give 2 rows and 1 skipped item.
C7_PartialFailure ==
    /\ hist.aborted => worklist = <<>>
    /\ runPc # "aborted"
          => /\ hist.skipped = {a \in Range(processed) : Failed(a)}
             /\ Len(hist.commits) = Cardinality({a \in Range(processed) : ~Failed(a)})
             /\ \A a \in Range(processed) :
                   ~Failed(a) <=> PrimaryKeyTaken(a, db)
    /\ runPc = "finished"
          => /\ Range(processed) = Range(worklist)
             /\ Len(processed) = Len(worklist)
             /\ bar = Len(worklist)

C7_Witness ==
    /\ runPc = "finished"
    /\ Len(worklist) = 3
    /\ {result[a] : a \in Range(worklist)} = {"data", "None", "retry_limit"}
    /\ result[processed[1]] = "retry_limit"
    /\ Len(hist.commits) = 2
    /\ Cardinality(hist.skipped) = 1
    /\ Cardinality(db) = 2

\* C8 as stated: with one worker the outcomes are handled in the order of
\* the work list.
C8_SequentialOrder ==
    n_threads = 1 => \A k \in 1..Len(processed) : processed[k] = worklist[k]

\* C9 as stated: an INSERT for an accession that already has a row leaves
\* that row as it is and aborts the run.
C9_DuplicateKeyFatal ==
    \A a \in hist.integrity :
        /\ Cardinality({r \in db : r.accession = a}) = 1
        /\ runPc = "aborted"

\* C11: a row of the table is never changed or removed by a later step of
\* any run: after every step the table still holds it, and it is the only
\* row of its accession.
C11_RecordLifecycle ==
    [][\A r \in db :
          /\ r \in db'
          /\ \A r2 \in db' : r2.accession = r.accession => r2 = r]_vars

\* A later run is writing while the table holds rows of an earlier run.
C11_Witness ==
    /\ runPc = "consuming"
    /\ \E r \in db : r.accession \notin Range(worklist)
    /\ \E r \in db : r.accession \in Range(processed)

\* C12 as stated: every commit makes exactly one row durable, also after a
\* commit or an INSERT of an earlier outcome failed, and the row of an
\* outcome that was handled without an error is in the table before the
\* next outcome is handled.
C12_OneRecordPerCommit ==
    /\ \A k \in 1..Len(hist.commits) : Cardinality(hist.commits[k]) = 1
    /\ \A a \in Range(processed) \ hist.skipped : PrimaryKeyTaken(a, db)

\* The worker of b waits for a remote call that does not return: no step of
\* b is possible any more, and its worker process is never free again.
Stuck(b) == pc[b] = "shutdown" /\ hangs[b]

\* C13 as stated: never more than n_threads work items are being fetched at
\* a time, and every item of the work list gets dispatched: while an item
\* waits in the queue, a worker is free or will be free again.
C13_BoundedParallelism ==
    /\ Cardinality(Busy) <= n_threads
    /\ \A a \in Acc :
          pc[a] = "queued"
             => \/ Cardinality(Busy) < n_threads
                \/ \E b \in Busy : ~Stuck(b)

\* The half of C13 that bounds the number of running fetches.
C13_AtMostN == Cardinality(Busy) <= n_threads

Record(a) == fetchall(a, db)

\* C14 as stated: a data endpoint answers 200 when the accession has a row
\* with status 1, and 404 when it has no row or a row with status 0.
C14_DataEndpoints ==
    response.endpoint \in {"metadata", "raw_counts"}
       => LET a == response.accession
          IN  /\ (\E r \in Record(a) : r.status = 1) => response.answer.code = 200
              /\ Record(a) = {} => response.answer.code = 404
              /\ (\E r \in Record(a) : r.status = 0) => response.answer.code = 404

\* C15: the status endpoint always answers 200 and echoes the accession; the
\* status it reports is the stored one (1 or 0) when the accession has a
\* row and "Unknown" when it has none.
C15_StatusEndpoint ==
    response.endpoint = "status"
       => LET a == response.accession
              body == response.answer.body
          IN  /\ response.answer.code = 200
              /\ body.accession = JsonString(a)
              /\ \A r \in Record(a) :
                    r.status \in {0, 1} /\ body.status = JsonNumber(r.status)
              /\ Record(a) = {} => body.status = JsonString("Unknown")

\* The status of an accession whose dataset is not available was asked
\* for, while other accessions have no row.
C15_Witness ==
    /\ response.endpoint = "status"
    /\ UnavailableRow(response.accession) \in db
    /\ response.answer.body.status = JsonNumber(0)
    /\ \E a \in Acc : Record(a) = {}

Succeeded(a) == result[a] = "data"

Local == {r.accession : r \in db}

\* C17: the work list a run starts with is the catalog minus the accessions
\* that have a row at that moment, each once; working it out leaves the
\* table as it is; and an accession that has a row is never dispatched.
C17_CatalogDiffer ==
    /\ [](\A a \in Acc :
            /\ pc[a] # "none" => a \in Range(worklist)
            /\ a \in Range(worklist) /\ a \in Local => Handled(a))
    /\ [][/\ Stopped /\ runPc' # "aborted"
               => /\ Range(worklist') = catalog \ Local
                  /\ Len(worklist') = Cardinality(catalog \ Local)
                  /\ db' = db /\ pending' = pending
          /\ \A a \in Acc :
                pc[a] = "queued" /\ pc'[a] = "attempting"
                   => a \in catalog /\ a \notin Local]_vars

\* A run that found rows of an earlier run in the table has dispatched an
\* item of its work list.
C17_Witness ==
    /\ runPc \in {"submitting", "consuming"}
    /\ \E a \in catalog : a \in Local /\ a \notin Range(worklist)
    /\ \E a \in Range(worklist) : pc[a] = "attempting" /\ a \notin Local

Recorded(a) == result[a] \in {"data", "None"}

C19_EnumerationFatal ==
    /\ [](hist.aborted
            => /\ runPc = "aborted"
               /\ worklist = <<>> /\ submitted = 0 /\ processed = <<>>
               /\ \A a \in Acc : pc[a] = "none" /\ result[a] = "none"
                                  /\ hist.calls[a] = 0 /\ hist.attempts[a] = 0)
    /\ [][hist'.aborted /\ hist' # hist
            => Stopped /\ db' = db /\ pending' = pending /\ ever' = ever]_vars

\* The enumeration failed in a run that found rows of an earlier run.
C19_Witness ==
    /\ hist.aborted
    /\ runPc = "aborted"
    /\ \E r1, r2 \in db : r1.status = 1 /\ r2.status = 0
    /\ catalog \ Local # {}

\* Remote calls of work item a that were submitted and have not ended.
InFlight(a) == hist.calls[a]

C21_FailedItemsRetried ==
    runPc = "finished"
       => /\ \A a \in hist.skipped :
                /\ ~PrimaryKeyTaken(a, db)
                /\ a \in Differ(catalog, get_loaded_datasets(db))
          /\ \A a \in Range(worklist) :
                PrimaryKeyTaken(a, db) <=> a \notin hist.skipped

\* The half of C21 about fetches: an item that ran out of retries, or whose
\* fetch raised another error, has no row when the run is over.
C21_FetchFailuresRetried ==
    runPc = "finished"
       => \A a \in Range(processed) :
             Failed(a) => a \in Differ(catalog, get_loaded_datasets(db))

=============================================================================
